---------------------------- MODULE Spec2Model ----------------------------
(***************************************************************************)
(* One invocation of one of the five serverless handlers of the            *)
(* repository:                                                             *)
(*   "streaming"  src/api/streaming-edge.js          (edge function)       *)
(*   "websearch"  src/api/abacus-websearch.js 1-165   (agent)              *)
(*   "fireworks"  src/api/abacus-websearch.js 167-404 (chat proxy)         *)
(*   "thread"     src/api/proxy.js 1-202  (chat proxy with thread id)      *)
(*   "research"   src/api/proxy.js 204-378            (agent)              *)
(* The request, the environment and the upstream's behaviour are inputs.   *)
(* `sent` is the log of responses written, `calls` the log of upstream     *)
(* calls issued.                                                           *)
(* FairSpec adds that an armed timer fires; ThreadSpec follows several     *)
(* invocations of the thread proxy under a millisecond clock.              *)
(***************************************************************************)
EXTENDS Integers, Sequences, FiniteSets, TLC

\* ---------------------------------------------------------------- bounds
\* how far below the minimum and above the maximum the inbound max_tokens ranges
Margin == 1
\* how many chunks a streamed upstream body emits at most
MaxChunks == 2
\* the last millisecond of the wall clock
MaxClock == 2
\* how many invocations of the thread proxy are followed
MaxInvocations == 3

\* ------------------------------------------------------ program constants
MinTokens == 1
MaxTokens == 8192
DefaultMaxTokens == 4096

\* ------------------------------------------------------------- JS values
Undefined == [t |-> "undefined"]
Null == [t |-> "null"]
Num(n) == [t |-> "num", v |-> n]
Bool(b) == [t |-> "bool", v |-> b]
Str(s) == [t |-> "str", v |-> s]
Obj(m) == [t |-> "obj", v |-> m]

\* an object literal with its undefined members left out
Strip(c) == [k \in {x \in DOMAIN c : c[x].t # "undefined"} |-> c[k]]

EmptyMap == [k \in {} |-> Undefined]

\* o.k for a value o that is not undefined or null: undefined when o has no such member
Get(o, k) == IF o.t = "obj" /\ k \in DOMAIN o.v THEN o.v[k] ELSE Undefined

\* o.k throws a TypeError when o is undefined or null
Throws(o) == o.t \in {"undefined", "null"}

Truthy(x) ==
    CASE x.t = "undefined" -> FALSE
      [] x.t = "null" -> FALSE
      [] x.t = "num" -> x.v # 0
      [] x.t = "bool" -> x.v
      [] x.t = "str" -> x.v # ""
      [] OTHER -> TRUE

\* a || b
Or(a, b) == IF Truthy(a) THEN a ELSE b

\* Math.max(a, b) and Math.min(a, b) on integers
MathMax(a, b) == IF a >= b THEN a ELSE b
MathMin(a, b) == IF a <= b THEN a ELSE b

\* ---------------------------------------------------------------- inputs
ChatHandlers == {"streaming", "fireworks", "thread"}
AgentHandlers == {"websearch", "research"}
Handlers == ChatHandlers \cup AgentHandlers

Methods == {"OPTIONS", "POST", "GET", "PUT"}

\* the environment variables each handler reads
TokenVar(h) == IF h = "websearch" THEN "ABACUS_WEBSEARCH_TOKEN" ELSE "ABACUS_DEPLOYMENT_TOKEN"
IdVar(h) == IF h = "websearch" THEN "ABACUS_WEBSEARCH_ID" ELSE "ABACUS_DEPLOYMENT_ID"
RequiredSecrets(h) ==
    IF h \in ChatHandlers THEN {"FIREWORKS_API_KEY"} ELSE {TokenVar(h), IdVar(h)}

\* process.env.X: undefined when unset, and a variable may be set to the empty string
SecretValues(k) ==
    {Undefined, Str(""),
     Str(IF k \in {IdVar("websearch"), IdVar("research")} THEN "dep-id" ELSE "sk-secret")}
Environments(h) ==
    {e \in [RequiredSecrets(h) -> UNION {SecretValues(k) : k \in RequiredSecrets(h)}] :
        \A k \in RequiredSecrets(h) : e[k] \in SecretValues(k)}

\* the inbound body: none at all, text that is no JSON, or JSON text denoting val
NoBody == [form |-> "none", val |-> Undefined]
Malformed == [form |-> "malformed", val |-> Undefined]
JsonBody(v) == [form |-> "json", val |-> v]

TokenInputs ==
    {Undefined, Null} \cup
    {Num(n) : n \in ((MinTokens - 1 - Margin)..(MinTokens + 1))
                    \cup ((MaxTokens - 1)..(MaxTokens + Margin))}
StreamInputs == {Undefined, Null, Bool(TRUE), Bool(FALSE)}
TemperatureInputs == {Undefined, Null, Str("0.7")}
\* the thread proxy is the one handler whose output depends on the clock
Clocks(h) == IF h = "thread" THEN 0..MaxClock ELSE {0}
ThreadInputs(h) == IF h = "thread" THEN {Undefined, Str("t1")} ELSE {Undefined}
UserInputs(h) == IF h = "thread" THEN {Undefined, Str("u1")} ELSE {Undefined}

ChatObjects(h) ==
    {Obj(Strip(c)) : c \in [model : {Str("m")}, messages : {Str("msgs")},
                            max_tokens : TokenInputs, stream : StreamInputs,
                            temperature : TemperatureInputs,
                            threadId : ThreadInputs(h), user : UserInputs(h)]}
AgentObjects ==
    {Obj(Strip(c)) : c \in [query : {Undefined, Null, Str(""), Str("q")},
                            email : {Undefined, Str("a@b")}]}
Bodies(h) ==
    {NoBody, Malformed, JsonBody(Null)} \cup
    {JsonBody(o) : o \in IF h \in ChatHandlers THEN ChatObjects(h) ELSE AgentObjects}

\* what the upstream may answer
UpStatuses == {200, 429, 500}
Ok(s) == s \in 200..299
StatusText(s) ==
    CASE s = 200 -> "OK"
      [] s = 429 -> "Too Many Requests"
      [] s = 500 -> "Internal Server Error"
      [] OTHER -> ""
ErrorTexts == {"", "rate limited"}
UpstreamData(h) ==
    CASE h = "websearch" ->
           {Null, Obj(EmptyMap), Obj([output |-> Obj([search_output |-> Str("results")])])}
      [] h = "research" ->
           {Null, Obj(EmptyMap), Obj([research_papers |-> Str("papers")])}
      [] OTHER ->
           {Null, Obj([choices |-> Str("c")]), Obj([error |-> Str("overloaded")])}

\* the chunks of a streamed body, and the chunks a relay writes itself
Data(n) == [k |-> "data", n |-> n]
DoneSentinel == [k |-> "done", n |-> 0]
ErrorChunk == [k |-> "error", n |-> 0]

\* ------------------------------------------------- request gate and parse
\* the body as the handler parses it: request.json() in the edge function,
\* typeof req.body === 'string' ? JSON.parse(req.body) : req.body in the others
ParseBody(h, b) ==
    CASE b.form = "malformed" -> [ok |-> FALSE, val |-> Undefined]
      [] b.form = "none" -> [ok |-> h # "streaming", val |-> Undefined]
      [] OTHER -> [ok |-> TRUE, val |-> b.val]

\* mutant: only the token is tested, the deployment id is not
SecretsMissingTokenOnly(h, e) ==
    ~Truthy(e[IF h \in ChatHandlers THEN "FIREWORKS_API_KEY" ELSE TokenVar(h)])

SecretsMissing(h, e) == \E k \in RequiredSecrets(h) : ~Truthy(e[k])

\* ------------------------------------------------------- normalisation
OriginalMaxTokens(rb) == Or(Get(rb, "max_tokens"), Num(DefaultMaxTokens))
ValidatedMaxTokens(rb) ==
    Num(MathMin(MathMax(MinTokens, OriginalMaxTokens(rb).v), MaxTokens))

\* thread-${Date.now()}
GeneratedThreadId(t) == Str("thread-" \o ToString(t))
\* requestBody.threadId || requestBody.user || `thread-${Date.now()}`, read at time t
ThreadId(rb, t) == Or(Or(Get(rb, "threadId"), Get(rb, "user")), GeneratedThreadId(t))

\* mutant: the inbound stream flag is passed on, defaulted to true when undefined
CleanedParamsPassthrough(rb) ==
    LET inbound == Get(rb, "stream")
        c == [model |-> Get(rb, "model"), messages |-> Get(rb, "messages"),
              max_tokens |-> ValidatedMaxTokens(rb),
              temperature |-> Get(rb, "temperature"), top_p |-> Get(rb, "top_p"),
              stream |-> IF inbound.t = "undefined" THEN Bool(TRUE) ELSE inbound]
    IN Obj([k \in {x \in DOMAIN c : c[x].t \notin {"undefined", "null"}} |-> c[k]])

\* the cleanedParams of the edge function, null and undefined members deleted
CleanedParams(rb) ==
    LET c == [model |-> Get(rb, "model"), messages |-> Get(rb, "messages"),
              max_tokens |-> ValidatedMaxTokens(rb),
              temperature |-> Get(rb, "temperature"), top_p |-> Get(rb, "top_p"),
              stream |-> Bool(TRUE)]
    IN Obj([k \in {x \in DOMAIN c : c[x].t \notin {"undefined", "null"}} |-> c[k]])

\* { ...requestBody, max_tokens: validatedMaxTokens }
ProxyPayload(rb) == Obj([max_tokens |-> ValidatedMaxTokens(rb)] @@ rb.v)

\* { ...requestBody, max_tokens: validatedMaxTokens, user: threadId }
ModifiedRequestBody(rb, t) ==
    Obj([max_tokens |-> ValidatedMaxTokens(rb), user |-> ThreadId(rb, t)] @@ rb.v)

WebSearchPayload(e, rb) ==
    Obj([deploymentId |-> e[IdVar("websearch")],
         input |-> Obj([query |-> Get(rb, "query")])])

KeywordArgs(rb) ==
    LET email == Or(Get(rb, "email"), Null)
    IN IF Truthy(email) THEN Obj([subject |-> Get(rb, "query"), email |-> email])
       ELSE Obj([subject |-> Get(rb, "query")])
ResearchPayload(e, rb) ==
    Obj([deployment_token |-> e[TokenVar("research")],
         deployment_id |-> e[IdVar("research")],
         keyword_arguments |-> KeywordArgs(rb)])

Payload(h, e, rb, t) ==
    CASE h = "streaming" -> CleanedParams(rb)
      [] h = "fireworks" -> ProxyPayload(rb)
      [] h = "thread" -> ModifiedRequestBody(rb, t)
      [] h = "websearch" -> WebSearchPayload(e, rb)
      [] OTHER -> ResearchPayload(e, rb)

\* the Authorization header of the outbound request
Authorization(h, e) ==
    CASE h \in ChatHandlers -> Str("Bearer " \o e["FIREWORKS_API_KEY"].v)
      [] h = "websearch" -> Str("Bearer " \o e[TokenVar(h)].v)
      [] OTHER -> Undefined

\* setTimeout(() => controller.abort(), ms): the edge function arms none
HasTimer(h) == h # "streaming"
TimeoutMs(h) ==
    CASE h = "websearch" -> 30000
      [] h = "research" -> 180000
      [] OTHER -> 120000

OutboundRequest(h, e, rb, t) ==
    [authorization |-> Authorization(h, e), payload |-> Payload(h, e, rb, t),
     signal |-> HasTimer(h)]

\* ------------------------------------------------------------ responses
CORS == "Access-Control-Allow-Origin: *"
JsonHeaders == {"Content-Type: application/json", CORS}
NoCache == "Cache-Control: no-cache, no-store, must-revalidate"
StreamHeaders ==
    {"Content-Type: text/event-stream", "Cache-Control: no-cache",
     "Connection: keep-alive", CORS}

ErrorBody(error, message, details) ==
    [kind |-> "json", error |-> error, message |-> message, details |-> details,
     data |-> Undefined]
DataBody(d) ==
    [kind |-> "json", error |-> "", message |-> "", details |-> "", data |-> d]
EmptyBody ==
    [kind |-> "empty", error |-> "", message |-> "", details |-> "", data |-> Undefined]
StreamBody ==
    [kind |-> "stream", error |-> "", message |-> "", details |-> "", data |-> Undefined]

Response(status, headers, body) ==
    [status |-> status, headers |-> headers, body |-> body]

PreflightResponse(h) ==
    Response(204,
             IF h = "thread"
             THEN {CORS, "Access-Control-Allow-Headers: Content-Type, Authorization",
                   "Access-Control-Allow-Methods: POST, OPTIONS"}
             ELSE {CORS, "Access-Control-Allow-Methods: GET, POST, OPTIONS",
                   "Access-Control-Allow-Headers: Content-Type, Authorization",
                   "Access-Control-Max-Age: 86400"},
             EmptyBody)

\* mutant: the 405 without its Allow header
MethodNotAllowedNoAllow(h) ==
    Response(405, JsonHeaders, ErrorBody("Method Not Allowed", "", ""))

MethodNotAllowed(h) ==
    Response(405, JsonHeaders \cup {"Allow: POST"}, ErrorBody("Method Not Allowed", "", ""))

MissingSecret(h) ==
    Response(500, JsonHeaders,
             CASE h = "thread" -> ErrorBody("API key not configured on server", "", "")
               [] h \in ChatHandlers ->
                    ErrorBody("API key not configured", "Please set FIREWORKS_API_KEY", "")
               [] h = "websearch" ->
                    ErrorBody("Abacus.AI Web Search credentials not configured",
                              "Please set ABACUS_WEBSEARCH_TOKEN and ABACUS_WEBSEARCH_ID", "")
               [] OTHER ->
                    ErrorBody("Abacus.AI credentials not configured",
                              "Please set ABACUS_DEPLOYMENT_TOKEN and ABACUS_DEPLOYMENT_ID", ""))

\* the handler's own catch of a body that does not parse; in the thread proxy the
\* parse sits in the try whose catch answers 'Bad Request'
BadRequest ==
    Response(400, JsonHeaders, ErrorBody("Bad Request", "Error processing request: ", ""))
InvalidJson(h) ==
    IF h = "thread" THEN BadRequest
    ELSE Response(400, JsonHeaders, ErrorBody("Invalid JSON in request body", "SyntaxError", ""))

MissingQuery(h) ==
    Response(400, JsonHeaders, ErrorBody("Missing required parameter: query", "", ""))

\* the outermost catch
CatchAll(h) ==
    IF h = "streaming"
    THEN Response(500, JsonHeaders, ErrorBody("TypeError", "", "TypeError"))
    ELSE Response(500, JsonHeaders, ErrorBody("Internal Server Error", "TypeError", ""))

\* a TypeError on reading a member of an undefined or null body
BodyTypeError(h) == IF h = "thread" THEN BadRequest ELSE CatchAll(h)

\* catch (fetchError), not an AbortError; the edge function has only the outer catch
RequestFailed(h, message) ==
    IF h = "streaming"
    THEN Response(500, JsonHeaders, ErrorBody(message, "", message))
    ELSE Response(500, JsonHeaders, ErrorBody("Request Failed", message, ""))

TimeoutMessage(h) ==
    CASE h = "websearch" -> "The web search request took too long to complete (>30 seconds)."
      [] h = "research" -> "The research agent request took too long to complete (>3 minutes)."
      [] OTHER -> "The request to the LLM API took too long to complete (>120 seconds)."
\* mutant: the 504 without the CORS header
TimeoutResponseNoCors(h) ==
    Response(504, {"Content-Type: application/json"},
             ErrorBody("Gateway Timeout", TimeoutMessage(h), ""))
TimeoutResponse(h) ==
    Response(504, JsonHeaders, ErrorBody("Gateway Timeout", TimeoutMessage(h), ""))

\* the relay of a non-success upstream status whose body was read as text
UpstreamError(h, s, text) ==
    Response(s, JsonHeaders,
             CASE h = "streaming" ->
                    ErrorBody("true", IF text # "" THEN text ELSE "API Error: " \o ToString(s), "")
               [] h \in AgentHandlers ->
                    ErrorBody("Abacus.AI API Error: " \o StatusText(s), "", text)
               [] OTHER -> ErrorBody("API Error: " \o StatusText(s), "", text))

\* the same when reading the body threw: only the edge function and the Fireworks
\* proxy read it inside a try of its own
UpstreamErrorUnread(h, s) ==
    CASE h = "streaming" ->
           Response(s, JsonHeaders, ErrorBody("true", "API Error: " \o ToString(s), ""))
      [] h = "fireworks" ->
           Response(s, JsonHeaders,
                    ErrorBody("API Error: " \o StatusText(s), "", "Status code: " \o ToString(s)))
      [] OTHER -> RequestFailed(h, "body read failed")

Performance(h, rb, t) ==
    IF h = "thread"
    THEN Obj([response_time_ms |-> Str("elapsed"), reasoning_method |-> Str("Standard"),
              thread_id |-> ThreadId(rb, t)])
    ELSE Obj([response_time_ms |-> Str("elapsed"), reasoning_method |-> Str("Standard")])

\* the buffered success path, from the parsed upstream JSON to the response
Success(h, rb, data, t) ==
    CASE h = "websearch" ->
           IF Throws(data) THEN RequestFailed(h, "TypeError")
           ELSE LET output == Get(data, "output")
                    found == IF Throws(output) THEN Undefined ELSE Get(output, "search_output")
                IN Response(200, JsonHeaders \cup {NoCache},
                            DataBody(Obj([search_results |->
                                              Or(found, Str("No search results found.")),
                                          success |-> Bool(TRUE)])))
      [] h = "research" ->
           IF Throws(data) THEN RequestFailed(h, "TypeError")
           ELSE Response(200, JsonHeaders \cup {NoCache},
                         DataBody(Obj([research_papers |->
                                           Or(Get(data, "research_papers"),
                                              Str("No research papers found.")),
                                       success |-> Bool(TRUE)])))
      [] h = "thread" ->
           IF Throws(data) THEN RequestFailed(h, "TypeError")
           ELSE Response(200, JsonHeaders \cup {NoCache},
                         DataBody(IF Truthy(Get(data, "error")) THEN data
                                  ELSE Obj([performance |-> Performance(h, rb, t)] @@ data.v)))
      [] OTHER ->
           Response(200, JsonHeaders \cup {NoCache},
                    DataBody(IF Truthy(data) /\ ~Truthy(Get(data, "error"))
                             THEN Obj([performance |-> Performance(h, rb, t)] @@ data.v)
                             ELSE data))

\* the response that opens a streamed relay
StreamResponse(h) == Response(200, StreamHeaders, StreamBody)

\* ----------------------------------------------------------------- state
VARIABLES
    h,            \* which handler is invoked
    method,       \* req.method
    env,          \* process.env, the variables the handler reads
    body,         \* the inbound body
    pc,           \* where the invocation stands
    requestBody,  \* the parsed body
    calls,        \* the upstream calls issued, in order
    sent,         \* the responses written (status, headers, body), in order
    timer,        \* the abort timer: "none", "armed", "cleared", "fired"
    upStatus,     \* the status the upstream answered with, 0 before
    emitted,      \* how many chunks the streamed upstream body has emitted
    held,         \* the chunk the pump is writing, if any
    client,       \* the chunks the client has received, in order
    chan,         \* the client side of a streamed relay: "none", "open", "closed", "errored"
    closes,       \* how many times the client channel was closed
    upBody,       \* what became of the upstream response's body
    now           \* Date.now(), in milliseconds

vars == <<h, method, env, body, pc, requestBody, calls, sent, timer, upStatus,
          emitted, held, client, chan, closes, upBody, now>>

inputs == <<h, method, env, body, now>>
stream == <<emitted, held, client, chan, closes>>

Init ==
    /\ h \in Handlers
    /\ method \in Methods
    /\ env \in Environments(h)
    /\ body \in Bodies(h)
    /\ pc = "start"
    /\ requestBody = Undefined
    /\ calls = <<>>
    /\ sent = <<>>
    /\ timer = "none"
    /\ upStatus = 0
    /\ emitted = 0
    /\ held = <<>>
    /\ client = <<>>
    /\ chan = "none"
    /\ closes = 0
    /\ upBody = [state |-> "none", text |-> ""]
    /\ now \in Clocks(h)

IsTrue(x) == x.t = "bool" /\ x.v

\* res.status(..).json(..) / return new Response(..): the handler is finished
Respond(r) ==
    /\ sent' = Append(sent, r)
    /\ pc' = "done"

\* -------------------------------------------------------- the request gate
\* mutant: the credential check runs before the preflight answer
PreflightAfterCredentials ==
    /\ pc = "start"
    /\ method = "OPTIONS"
    /\ Respond(IF SecretsMissing(h, env) THEN MissingSecret(h) ELSE PreflightResponse(h))
    /\ UNCHANGED <<inputs, upBody, requestBody, calls, timer, upStatus, stream>>

Preflight ==
    /\ pc = "start"
    /\ method = "OPTIONS"
    /\ Respond(PreflightResponse(h))
    /\ UNCHANGED <<inputs, upBody, requestBody, calls, timer, upStatus, stream>>

MethodGate ==
    /\ pc = "start"
    /\ method # "OPTIONS"
    /\ method # "POST"
    /\ Respond(MethodNotAllowed(h))
    /\ UNCHANGED <<inputs, upBody, requestBody, calls, timer, upStatus, stream>>

\* mutant: the body is parsed before the credentials are checked
CredentialCheckAfterParse ==
    /\ pc = "start"
    /\ method = "POST"
    /\ IF ~ParseBody(h, body).ok
       THEN Respond(InvalidJson(h))
       ELSE IF SecretsMissing(h, env)
            THEN Respond(MissingSecret(h))
            ELSE pc' = "parse" /\ UNCHANGED sent
    /\ UNCHANGED <<inputs, upBody, requestBody, calls, timer, upStatus, stream>>

CredentialCheck ==
    /\ pc = "start"
    /\ method = "POST"
    /\ IF SecretsMissing(h, env)
       THEN Respond(MissingSecret(h))
       ELSE pc' = "parse" /\ UNCHANGED sent
    /\ UNCHANGED <<inputs, upBody, requestBody, calls, timer, upStatus, stream>>

ParseRequest ==
    /\ pc = "parse"
    /\ LET p == ParseBody(h, body)
       IN IF p.ok
          THEN requestBody' = p.val /\ pc' = "shape" /\ UNCHANGED sent
          ELSE Respond(InvalidJson(h)) /\ UNCHANGED requestBody
    /\ UNCHANGED <<inputs, upBody, calls, timer, upStatus, stream>>

\* a body no member can be read of, or (agents) no query
Rejected(hh, rb) == Throws(rb) \/ (hh \in AgentHandlers /\ ~Truthy(Get(rb, "query")))

RejectBody ==
    /\ pc = "shape"
    /\ Rejected(h, requestBody)
    /\ Respond(IF Throws(requestBody) THEN BodyTypeError(h) ELSE MissingQuery(h))
    /\ UNCHANGED <<inputs, upBody, requestBody, calls, timer, upStatus, stream>>

\* the outbound payload is built, the abort timer armed and fetch called
IssueCall ==
    /\ pc = "shape"
    /\ ~Rejected(h, requestBody)
    /\ calls' = Append(calls, OutboundRequest(h, env, requestBody, now))
    /\ timer' = IF HasTimer(h) THEN "armed" ELSE "none"
    /\ pc' = "await_fetch"
    /\ UNCHANGED <<inputs, upBody, requestBody, sent, upStatus, stream>>

\* ------------------------------------------------------ the upstream call
ClearTimeout == IF timer = "armed" THEN "cleared" ELSE timer

\* const isStreaming = requestBody.stream === true (Fireworks proxy only)
IsStreaming == h = "fireworks" /\ IsTrue(Get(requestBody, "stream"))

\* fetch resolves with a non-success status: the error body is read next
UpstreamFails ==
    /\ pc = "await_fetch"
    /\ \E s \in UpStatuses :
         /\ ~Ok(s)
         /\ upStatus' = s
    /\ timer' = ClearTimeout
    /\ pc' = "await_text"
    /\ UNCHANGED <<inputs, upBody, requestBody, calls, sent, stream>>

\* fetch resolves with success and the handler reads the body as JSON
UpstreamAnswers ==
    /\ pc = "await_fetch"
    /\ h # "streaming"
    /\ ~IsStreaming
    /\ \E s \in UpStatuses :
         /\ Ok(s)
         /\ upStatus' = s
    /\ timer' = ClearTimeout
    /\ pc' = "await_json"
    /\ UNCHANGED <<inputs, upBody, requestBody, calls, sent, stream>>

\* fetch rejects for a reason other than the abort
FetchReject ==
    /\ pc = "await_fetch"
    /\ Respond(RequestFailed(h, "network"))
    /\ timer' = IF h \in {"fireworks", "thread"} THEN ClearTimeout ELSE timer
    /\ UNCHANGED <<inputs, upBody, requestBody, calls, upStatus, stream>>

\* mutant: the timer's callback answers 504 whatever the invocation is doing
TimerFireResponds ==
    /\ timer = "armed"
    /\ timer' = "fired"
    /\ Respond(TimeoutResponse(h))
    /\ UNCHANGED <<inputs, upBody, requestBody, calls, upStatus, stream>>

\* the timer's callback: controller.abort(); a pending fetch rejects with an
\* AbortError, which the handler's catch answers
TimerFire ==
    /\ timer = "armed"
    /\ timer' = "fired"
    /\ IF pc = "await_fetch"
       THEN Respond(TimeoutResponse(h))
       ELSE UNCHANGED <<pc, sent>>
    /\ UNCHANGED <<inputs, upBody, requestBody, calls, upStatus, stream>>

ErrorBodyRead ==
    /\ pc = "await_text"
    /\ \E text \in ErrorTexts :
         /\ Respond(UpstreamError(h, upStatus, text))
         /\ upBody' = [state |-> "text", text |-> text]
    /\ UNCHANGED <<inputs, requestBody, calls, timer, upStatus, stream>>

ErrorBodyFail ==
    /\ pc = "await_text"
    /\ Respond(UpstreamErrorUnread(h, upStatus))
    /\ upBody' = [state |-> "unreadable", text |-> ""]
    /\ UNCHANGED <<inputs, requestBody, calls, timer, upStatus, stream>>

\* response.json() yields the upstream's JSON; an event stream is no JSON
JsonRead ==
    /\ pc = "await_json"
    /\ ~IsTrue(Get(calls[1].payload, "stream"))
    /\ \E d \in UpstreamData(h) : Respond(Success(h, requestBody, d, now))
    /\ upBody' = [state |-> "json", text |-> ""]
    /\ UNCHANGED <<inputs, requestBody, calls, timer, upStatus, stream>>

JsonFail ==
    /\ pc = "await_json"
    /\ Respond(RequestFailed(h, "invalid json"))
    /\ upBody' = [state |-> "unparsable", text |-> ""]
    /\ UNCHANGED <<inputs, requestBody, calls, timer, upStatus, stream>>

\* ------------------------------------------- the edge function's relay
\* fetch resolves with success: pump() runs to its first read and the Response
\* over the readable side of the TransformStream is returned
StartStream ==
    /\ pc = "await_fetch"
    /\ h = "streaming"
    /\ \E s \in UpStatuses :
         /\ Ok(s)
         /\ upStatus' = s
    /\ sent' = Append(sent, StreamResponse(h))
    /\ chan' = "open"
    /\ pc' = "pump_read"
    /\ upBody' = [state |-> "flowing", text |-> ""]
    /\ UNCHANGED <<inputs, requestBody, calls, timer, emitted, held, client, closes>>

\* mutant: the pump reads on while the write of the previous chunk is pending
PumpReadChunkEager ==
    /\ pc \in {"pump_read", "pump_write"}
    /\ emitted < MaxChunks
    /\ emitted' = emitted + 1
    /\ held' = Append(held, Data(emitted + 1))
    /\ pc' = "pump_write"
    /\ UNCHANGED <<inputs, upBody, requestBody, calls, sent, timer, upStatus, client, chan, closes>>

\* reader.read() yields a chunk, which the pump writes: await writer.write(value)
PumpReadChunk ==
    /\ pc = "pump_read"
    /\ emitted < MaxChunks
    /\ emitted' = emitted + 1
    /\ held' = <<Data(emitted + 1)>>
    /\ pc' = "pump_write"
    /\ UNCHANGED <<inputs, upBody, requestBody, calls, sent, timer, upStatus, client, chan, closes>>

\* mutant: on done the pump closes the writer without writing the sentinel
PumpReadDoneNoSentinel ==
    /\ pc = "pump_read"
    /\ held' = <<>>
    /\ pc' = "pump_close"
    /\ upBody' = [state |-> "ended", text |-> ""]
    /\ UNCHANGED <<inputs, requestBody, calls, sent, timer, upStatus, emitted, client, chan,
                   closes>>

\* reader.read() yields done: the pump writes the sentinel
PumpReadDone ==
    /\ pc = "pump_read"
    /\ held' = <<DoneSentinel>>
    /\ pc' = "pump_write_done"
    /\ upBody' = [state |-> "ended", text |-> ""]
    /\ UNCHANGED <<inputs, requestBody, calls, sent, timer, upStatus, emitted, client, chan,
                   closes>>

\* reader.read() rejects: the catch writes the error chunk
PumpReadError ==
    /\ pc = "pump_read"
    /\ held' = <<ErrorChunk>>
    /\ pc' = "catch_write_error"
    /\ upBody' = [state |-> "errored", text |-> ""]
    /\ UNCHANGED <<inputs, requestBody, calls, sent, timer, upStatus, emitted, client, chan,
                   closes>>

PumpWrites == {"pump_write", "pump_write_done", "catch_write_error", "catch_write_done"}
PumpCloses == {"pump_close", "catch_close"}

\* a pending write resolves once the readable side has taken the chunk; the pump
\* goes on to its next await
WriteAccepted ==
    /\ pc \in PumpWrites
    /\ chan = "open"
    /\ client' = Append(client, held[1])
    /\ held' = IF pc = "catch_write_error" THEN <<DoneSentinel>> ELSE <<>>
    /\ pc' = CASE pc = "pump_write" -> "pump_read"
               [] pc = "pump_write_done" -> "pump_close"
               [] pc = "catch_write_error" -> "catch_write_done"
               [] OTHER -> "catch_close"
    /\ UNCHANGED <<inputs, upBody, requestBody, calls, sent, timer, upStatus, emitted, chan, closes>>

\* await writer.close()
WriterClose ==
    /\ pc \in PumpCloses
    /\ chan = "open"
    /\ chan' = "closed"
    /\ closes' = closes + 1
    /\ pc' = "done"
    /\ UNCHANGED <<inputs, upBody, requestBody, calls, sent, timer, upStatus, emitted, held, client>>

\* a write or close on an errored writer rejects: inside the try this enters the
\* catch, whose own first write then rejects out of pump()
WriteRejected ==
    /\ pc \in PumpWrites \cup PumpCloses
    /\ chan = "errored"
    /\ IF pc \in {"pump_write", "pump_write_done", "pump_close"}
       THEN held' = <<ErrorChunk>> /\ pc' = "catch_write_error"
       ELSE held' = <<>> /\ pc' = "pump_rejected"
    /\ UNCHANGED <<inputs, upBody, requestBody, calls, sent, timer, upStatus, emitted, client, chan,
                   closes>>

\* the client goes away: the readable side is cancelled and the writer errored
ClientCancel ==
    /\ chan = "open"
    /\ pc \in PumpWrites \cup PumpCloses \cup {"pump_read", "piping"}
    /\ chan' = "errored"
    /\ UNCHANGED <<inputs, upBody, requestBody, calls, sent, timer, upStatus, emitted, held, client,
                   closes, pc>>

\* ------------------------------------- the Fireworks proxy's stream mode
\* response.body.pipe(res); responseSent = true; return
StartPipe ==
    /\ pc = "await_fetch"
    /\ IsStreaming
    /\ \E s \in UpStatuses :
         /\ Ok(s)
         /\ upStatus' = s
    /\ timer' = ClearTimeout
    /\ sent' = Append(sent, StreamResponse(h))
    /\ chan' = "open"
    /\ pc' = "piping"
    /\ upBody' = [state |-> "flowing", text |-> ""]
    /\ UNCHANGED <<inputs, requestBody, calls, emitted, held, client, closes>>

\* pipe forwards a chunk of the upstream body to res
PipeChunk ==
    /\ pc = "piping"
    /\ emitted < MaxChunks
    /\ emitted' = emitted + 1
    /\ client' = IF chan = "open" THEN Append(client, Data(emitted + 1)) ELSE client
    /\ UNCHANGED <<inputs, upBody, requestBody, calls, sent, timer, upStatus, held, chan, closes, pc>>

\* the upstream body ends: pipe ends res
PipeEnd ==
    /\ pc = "piping"
    /\ IF chan = "open"
       THEN chan' = "closed" /\ closes' = closes + 1
       ELSE UNCHANGED <<chan, closes>>
    /\ pc' = "done"
    /\ upBody' = [state |-> "ended", text |-> ""]
    /\ UNCHANGED <<inputs, requestBody, calls, sent, timer, upStatus, emitted, held, client>>

\* the upstream body errors: the handler's 'error' listener logs, pipe leaves res open
PipeError ==
    /\ pc = "piping"
    /\ pc' = "pipe_broken"
    /\ upBody' = [state |-> "errored", text |-> ""]
    /\ UNCHANGED <<inputs, requestBody, calls, sent, timer, upStatus, stream>>

Next ==
    \/ StartStream
    \/ PumpReadChunk
    \/ PumpReadDone
    \/ PumpReadError
    \/ WriteAccepted
    \/ WriterClose
    \/ WriteRejected
    \/ ClientCancel
    \/ StartPipe
    \/ PipeChunk
    \/ PipeEnd
    \/ PipeError
    \/ Preflight
    \/ MethodGate
    \/ CredentialCheck
    \/ ParseRequest
    \/ RejectBody
    \/ IssueCall
    \/ UpstreamFails
    \/ UpstreamAnswers
    \/ FetchReject
    \/ TimerFire
    \/ ErrorBodyRead
    \/ ErrorBodyFail
    \/ JsonRead
    \/ JsonFail

Spec == Init /\ [][Next]_vars

\* ------------------------------------- several invocations of the thread proxy
\* the bodies that differ in threadId and user only
ThreadBodies ==
    {o \in ChatObjects("thread") : DOMAIN o.v \subseteq {"model", "messages", "threadId", "user"}}

ThreadInit ==
    /\ h = "thread"
    /\ method = "POST"
    /\ env = [k \in RequiredSecrets("thread") |-> Str("sk-secret")]
    /\ body = NoBody
    /\ pc = "start"
    /\ requestBody = Undefined
    /\ calls = <<>>
    /\ sent = <<>>
    /\ timer = "none"
    /\ upStatus = 0
    /\ emitted = 0
    /\ held = <<>>
    /\ client = <<>>
    /\ chan = "none"
    /\ closes = 0
    /\ upBody = [state |-> "none", text |-> ""]
    /\ now = 0

\* one more invocation arrives and runs, without an await, from the handler's
\* entry to its fetch: the thread id is read, the timer armed, the call issued
ThreadInvoke ==
    /\ Len(calls) < MaxInvocations
    /\ \E o \in ThreadBodies :
         /\ body' = JsonBody(o)
         /\ requestBody' = o
         /\ calls' = Append(calls, OutboundRequest(h, env, o, now))
    /\ timer' = "armed"
    /\ pc' = "await_fetch"
    /\ UNCHANGED <<h, method, env, now, upBody, sent, upStatus, stream>>

\* the wall clock advances by a millisecond
Tick ==
    /\ now < MaxClock
    /\ now' = now + 1
    /\ UNCHANGED <<h, method, env, body, pc, requestBody, calls, sent, timer, upStatus,
                   stream, upBody>>

ThreadNext == ThreadInvoke \/ Tick

ThreadSpec == ThreadInit /\ [][ThreadNext]_vars

\* the same invocation, with an armed timer's callback eventually run; the upstream
\* is not obliged to answer, nor to finish a body it has begun
FairSpec == Spec /\ WF_vars(TimerFire)


\* ---------------------------------------------------------------- claims
Responded == Len(sent) > 0
IsData(c) == c.k = "data"
IsErrorChunk(c) == c.k = "error"
DataSeq(n) == [i \in 1..n |-> Data(i)]

\* C1: a request whose method is neither POST nor OPTIONS is answered 405 with an
\* Allow header naming POST, whatever the environment and the body, and no upstream
\* call is made
C1_MethodNotAllowed ==
    method \notin {"POST", "OPTIONS"} =>
        /\ calls = <<>>
        /\ pc # "start" =>
             /\ pc = "done"
             /\ Len(sent) = 1
             /\ sent[1].status = 405
             /\ "Allow: POST" \in sent[1].headers

C1_Witness ==
    /\ method = "PUT"
    /\ pc = "done"
    /\ Responded
    /\ \A k \in RequiredSecrets(h) : env[k].t = "undefined"
    /\ body = Malformed

\* C2: a POST made while a secret the handler requires is absent is answered 500
\* and no upstream call is made
C2_MissingSecret ==
    (method = "POST" /\ \E k \in RequiredSecrets(h) : env[k].t = "undefined") =>
        /\ calls = <<>>
        /\ pc # "start" =>
             /\ pc = "done"
             /\ Len(sent) = 1
             /\ sent[1].status = 500

C2_Witness ==
    /\ h = "research"
    /\ method = "POST"
    /\ Truthy(env["ABACUS_DEPLOYMENT_TOKEN"])
    /\ env["ABACUS_DEPLOYMENT_ID"].t = "undefined"
    /\ pc = "done"
    /\ Responded

\* C3 (as claimed): in the chat handlers the outbound max_tokens is
\* min(max(1, v), 8192) for every integer inbound v, and 4096 when it is absent
C3_Clamped ==
    (h \in ChatHandlers /\ calls # <<>>) =>
        LET v == Get(requestBody, "max_tokens")
            out == Get(calls[1].payload, "max_tokens")
        IN /\ out.t = "num"
           /\ v.t = "num" =>
                out.v = (IF v.v < 1 THEN 1 ELSE IF v.v > 8192 THEN 8192 ELSE v.v)
           /\ v.t = "undefined" => out.v = 4096

\* C4: every outbound payload of the streaming endpoint has stream true, whatever
\* the inbound stream is
C4_StreamForced ==
    (h = "streaming" /\ calls # <<>>) => IsTrue(Get(calls[1].payload, "stream"))

C4_Witness ==
    /\ h = "streaming"
    /\ calls # <<>>
    /\ Get(requestBody, "stream").t = "bool"
    /\ ~Get(requestBody, "stream").v

\* the duration a timeout message states, in milliseconds
StatedMs(message) ==
    CASE message = "The web search request took too long to complete (>30 seconds)." -> 30000
      [] message = "The request to the LLM API took too long to complete (>120 seconds)." -> 120000
      [] message = "The research agent request took too long to complete (>3 minutes)." -> 180000
      [] OTHER -> 0

\* C5 (as claimed): on every endpoint the pending upstream call has a bounded wait
\* (an abort timer is armed while it is awaited), and the answer to its expiry is a
\* 504 whose message states the timeout
C5_BoundedWait ==
    /\ pc = "await_fetch" => timer = "armed"
    /\ timer = "fired" => Responded
    /\ \A i \in 1..Len(sent) :
         sent[i].status = 504 => StatedMs(sent[i].body.message) = TimeoutMs(h)

\* the texts by which a handler names a status in place of the unread error body
StatusNames(s) ==
    {"API Error: " \o ToString(s), "Status code: " \o ToString(s),
     "API Error: " \o StatusText(s), "Abacus.AI API Error: " \o StatusText(s)}

\* C6 (as claimed): a non-success upstream status s is answered with status s and
\* the upstream error body, and with status s and the status text or code when the
\* error body cannot be read
C6_RelaysUpstreamStatus ==
    (pc = "done" /\ upBody.state \in {"text", "unreadable"}) =>
        /\ Len(sent) = 1
        /\ sent[1].status = upStatus
        /\ upBody.state = "text" =>
             \/ upBody.text = ""
             \/ upBody.text \in {sent[1].body.message, sent[1].body.details}
        /\ upBody.state = "unreadable" =>
             {sent[1].body.error, sent[1].body.message, sent[1].body.details}
                 \cap StatusNames(upStatus) # {}

\* C7: in the streaming endpoint's relay the client receives the chunks the
\* upstream body emitted, in order, then one sentinel written by the relay, and the
\* channel is closed exactly once
C7_RelayInOrder ==
    h = "streaming" =>
        /\ closes <= 1
        /\ SelectSeq(client, IsData) = DataSeq(Len(SelectSeq(client, IsData)))
        /\ Len(SelectSeq(client, IsData)) <= emitted
        /\ (upBody.state = "ended" /\ pc = "done" /\ chan # "errored") =>
             /\ client = DataSeq(emitted) \o <<DoneSentinel>>
             /\ chan = "closed"
             /\ closes = 1

C7_Witness ==
    /\ h = "streaming"
    /\ upBody.state = "ended"
    /\ pc = "done"
    /\ emitted = 2
    /\ client = <<Data(1), Data(2), DoneSentinel>>
    /\ closes = 1

\* C8 (as claimed): a streamed relay that stops after a failure (an upstream read or
\* a client write failed) has written exactly one error chunk, then the sentinel,
\* and has closed the channel
C8_ErrorThenSentinel ==
    (/\ chan # "none"
     /\ pc \in {"done", "pump_rejected", "pipe_broken"}
     /\ (upBody.state = "errored" \/ chan = "errored")) =>
        /\ chan = "closed"
        /\ closes = 1
        /\ Len(SelectSeq(client, IsErrorChunk)) = 1
        /\ Len(client) >= 2
        /\ client[Len(client) - 1] = ErrorChunk
        /\ client[Len(client)] = DoneSentinel

\* C9: every response a handler sends carries Access-Control-Allow-Origin: *
C9_CorsEverywhere ==
    \A i \in 1..Len(sent) : "Access-Control-Allow-Origin: *" \in sent[i].headers

C9_Witness ==
    /\ Len(sent) = 1
    /\ sent[1].status = 504
    /\ timer = "fired"

\* C10: one invocation issues at most one upstream call and writes at most one
\* response, and has written exactly one when the handler is done
C10_OneCallOneResponse ==
    /\ Len(calls) <= 1
    /\ Len(sent) <= 1
    /\ pc \in {"done", "pump_rejected", "pipe_broken"} => Len(sent) = 1

C10_Witness ==
    /\ pc = "done"
    /\ timer = "fired"
    /\ Len(calls) = 1
    /\ Len(sent) = 1
    /\ sent[1].status = 500

\* a required secret is unset or set to the empty string
SecretFalsy ==
    \E k \in RequiredSecrets(h) :
        env[k].t = "undefined" \/ (env[k].t = "str" /\ env[k].v = "")

\* the inbound body carries no object
NoObject == body.form # "json" \/ body.val.t # "obj"

\* the inbound body carries no non-empty query
NoQuery ==
    \/ NoObject
    \/ "query" \notin DOMAIN body.val.v
    \/ body.val.v["query"].t # "str"
    \/ body.val.v["query"].v = ""

\* the inbound body fails parsing or validation
BodyFails == NoObject \/ (h \in AgentHandlers /\ NoQuery)

\* C11: the stages run in the order preflight, method gate, credential check, body
\* parse/validation, upstream call, and the response is that of the earliest
\* failing stage
C11_StageOrder ==
    /\ (method \notin {"POST", "OPTIONS"} /\ pc = "done") => sent[1].status = 405
    /\ (method = "OPTIONS" /\ pc = "done") => sent[1].status = 204
    /\ (method = "POST" /\ SecretFalsy /\ pc = "done") =>
          /\ sent[1].status = 500
          /\ sent[1].body.error \in
               {"API key not configured", "API key not configured on server",
                "Abacus.AI Web Search credentials not configured",
                "Abacus.AI credentials not configured"}
    /\ (method = "POST" /\ ~SecretFalsy /\ BodyFails) =>
          /\ calls = <<>>
          /\ pc = "done" => sent[1].status \in {400, 500}
    /\ calls # <<>> => (method = "POST" /\ ~SecretFalsy /\ ~BodyFails)

C11_Witness ==
    /\ method = "POST"
    /\ SecretFalsy
    /\ body = Malformed
    /\ pc = "done"
    /\ sent[1].status = 500

\* C12 (as claimed): in the agent handlers, with the credentials present, a POST
\* that carries no non-empty query (an object without query, an empty query, an
\* absent or null body) is answered 400 and makes no upstream call
C12_MissingQuery ==
    (h \in AgentHandlers /\ method = "POST" /\ ~SecretFalsy
       /\ body.form # "malformed" /\ NoQuery) =>
        /\ calls = <<>>
        /\ pc = "done" => sent[1].status = 400

\* C13 (as claimed): in the chat proxies a successful upstream answer to an
\* outbound request with stream true is relayed as an event stream and never read
\* by the buffered path; without stream true it is read in full as JSON
C13_ModeFollowsFlag ==
    (h \in {"fireworks", "thread"} /\ calls # <<>> /\ Ok(upStatus)) =>
        IF IsTrue(Get(calls[1].payload, "stream"))
        THEN /\ pc # "await_json"
             /\ upBody.state \notin {"json", "unparsable"}
             /\ Len(sent) = 1
             /\ sent[1].body.kind = "stream"
        ELSE /\ chan = "none"
             /\ \A i \in 1..Len(sent) : sent[i].body.kind = "json"

\* C14: an OPTIONS request is answered 204 with an empty body and nothing else
\* happens, whatever the secrets and the body are
C14_PreflightOnly ==
    method = "OPTIONS" =>
        /\ calls = <<>>
        /\ requestBody = Undefined
        /\ timer = "none"
        /\ chan = "none"
        /\ pc # "start" =>
             /\ pc = "done"
             /\ Len(sent) = 1
             /\ sent[1].status = 204
             /\ sent[1].body.kind = "empty"
             /\ "Access-Control-Allow-Origin: *" \in sent[1].headers

C14_Witness ==
    /\ method = "OPTIONS"
    /\ pc = "done"
    /\ SecretFalsy
    /\ body = Malformed
    /\ sent[1].status = 204

\* C15 (as claimed): the outbound payload of a chat handler has no member whose
\* value is undefined or null
C15_NoNullMembers ==
    (h \in ChatHandlers /\ calls # <<>>) =>
        \A k \in DOMAIN calls[1].payload.v :
            calls[1].payload.v[k].t \notin {"undefined", "null"}

\* the environment variable that holds the handler's credential
CredentialVar == IF h \in ChatHandlers THEN "FIREWORKS_API_KEY" ELSE TokenVar(h)

\* C16 (as claimed): every upstream call carries the credential in its
\* Authorization header, and no member of its body is the credential
C16_CredentialInHeaderOnly ==
    calls # <<>> =>
        /\ calls[1].authorization.t = "str"
        /\ calls[1].authorization.v = "Bearer " \o env[CredentialVar].v
        /\ \A k \in DOMAIN calls[1].payload.v :
              calls[1].payload.v[k].t = "str" =>
                  calls[1].payload.v[k].v # env[CredentialVar].v

\* the number of upstream chunks the client channel has taken
Delivered == Cardinality({i \in 1..Len(client) : IsData(client[i])})

\* C17: the relay of the edge function holds at most one chunk: a chunk is read
\* from upstream only when every chunk read before it has been taken by the
\* client channel
C17_OneChunkHeld ==
    h = "streaming" =>
        /\ Len(held) <= 1
        /\ chan = "open" => emitted - Delivered \in {0, 1}
        /\ (chan = "open" /\ pc = "pump_read") => emitted = Delivered
        /\ (chan = "open" /\ emitted > Delivered) =>
              (pc = "pump_write" /\ held = <<Data(emitted)>>)

C17_Witness ==
    /\ h = "streaming"
    /\ chan = "open"
    /\ pc = "pump_write"
    /\ emitted = 2
    /\ Delivered = 1

\* C18 (as claimed): in the four handlers that arm a timer, an invocation that
\* has issued the upstream call eventually sends a response, provided only that
\* an armed timer fires, also when the upstream stalls in the body
C18_EventuallyResponds ==
    (HasTimer(h) /\ calls # <<>>) ~> (Len(sent) > 0)

\* the user value of the i-th upstream call
UserOf(i) == calls[i].payload.v["user"]

\* the ids the thread proxy can generate
GeneratedIds == {GeneratedThreadId(t) : t \in 0..MaxClock}

\* C19 (as claimed): the outbound user of the thread proxy is the inbound threadId
\* when present, else the inbound user, else a generated id, and two invocations
\* that both lack threadId and user never get the same generated id
C19_DistinctThreadIds ==
    /\ calls # <<>> =>
          LET threadId == Get(requestBody, "threadId")
              user == Get(requestBody, "user")
              out == UserOf(Len(calls))
          IN IF threadId.t = "str" THEN out = threadId
             ELSE IF user.t = "str" THEN out = user
             ELSE out \in GeneratedIds
    /\ \A i, j \in 1..Len(calls) :
          (i < j /\ UserOf(i) \in GeneratedIds /\ UserOf(j) \in GeneratedIds) =>
              UserOf(i) # UserOf(j)

=============================================================================
